---- MODULE Spec2Model ----
(***************************************************************************)
(* Blunder detection of GameOfThrows                                       *)
(* (src/src/modules/blunder_detection/blunder_detection.py).               *)
(*                                                                         *)
(* Units.  Evaluations are Python floats in pawns; here they are integers  *)
(* in thousandths of a pawn (score.score() / 100.0 is cp * 10, the mate    *)
(* value 10.0 + 10.0 / d is 10000 + 10000 \div d).  Win probabilities are  *)
(* floats in [0, 1]; here they are integers in units of 1e-7 (One is 1.0). *)
(***************************************************************************)
EXTENDS Integers, Sequences, FiniteSets, TLC

\* Longest move list given to the analyzer.
MaxMoves == 3
\* Largest mate distance the engine reports.
MaxMate == 3

VARIABLES
    game_moves,     \* the move list, already split on whitespace
    pc,             \* where the analysis is
    board,          \* convert_moves_to_positions: the chess.Board
    positions,      \* convert_moves_to_positions: its local list
    k,              \* convert_moves_to_positions: index of the next move
    convert_ret,    \* what convert_moves_to_positions gave its caller
    records,        \* analyze_game_for_blunders: its list of dicts
    i,              \* analyze_game_for_blunders: enumerate index (0-based)
    previous_eval,  \* analyze_game_for_blunders: its local
    outcome,        \* what analyze_game_for_blunders gave its caller
    engine_log,     \* every request made to the evaluation source, with its reply
    stdout,         \* what was printed
    call,           \* a direct call of classify_move: its frame
    engine,         \* BlunderDetection: self.engine
    popen_calls,    \* how often SimpleEngine.popen_uci was called
    close_calls,    \* how often BlunderDetection.close was called
    history,        \* the calls of analyze_game_for_blunders that returned
    dataset,        \* what load_chess_data reads
    runs,           \* the calls of import_data_to_neo4j that have ended
    batch_size,     \* import_data_to_neo4j: its argument
    max_games,      \* import_data_to_neo4j: its argument
    ipc,            \* where import_data_to_neo4j is
    df,             \* import_data_to_neo4j: the frame, after the limit
    batch_i,        \* import_data_to_neo4j: i, where the batch starts
    row,            \* import_data_to_neo4j: rows of the batch already visited
    blunder_data,   \* import_data_to_neo4j: what the analysis returned
    blunder_j,      \* import_data_to_neo4j: dicts of blunder_data already visited
    blunder_id,     \* import_data_to_neo4j: its local
    nodes,          \* the graph database: its nodes
    rels,           \* the graph database: its relationships
    uuid_calls,     \* how often uuid.uuid4 was called
    db,             \* import_data_to_neo4j: its Neo4jConnection
    models,         \* import_data_to_neo4j: the Neo4jConnection of its GraphModels
    exc             \* the exception import_data_to_neo4j is propagating

\* One analysis: the locals of analyze_game_for_blunders and of what it calls.
gameVars == <<game_moves, pc, board, positions, k, convert_ret, records, i,
              previous_eval, outcome, engine_log, stdout>>
\* The analyzer object and its callers' record of it.
analyzerVars == <<engine, popen_calls, close_calls, history>>
\* The import and the database.
importVars == <<dataset, runs, batch_size, max_games, ipc, df, batch_i, row,
                blunder_data, blunder_j, blunder_id, nodes, rels, uuid_calls,
                db, models, exc>>

vars == <<gameVars, call, analyzerVars, importVars>>

Abs(x) == IF x < 0 THEN -x ELSE x
Max(a, b) == IF a >= b THEN a ELSE b
Range(s) == {s[j] : j \in 1..Len(s)}

(***************************************************************************)
(* python-chess, as far as the analyzer uses it.  A board is the list of   *)
(* the moves pushed on it.  The moves are a small rule book: two Black     *)
(* moves, three White moves of which Qh5 needs the e-pawn gone from e2 and *)
(* f3 empty, and one text that is no move at all.                          *)
(***************************************************************************)
Sans == {"e4", "Nf3", "Qh5", "e5", "Nc6", "Zz9"}

Board == <<>>

turn(b) == IF Len(b) % 2 = 0 THEN "White" ELSE "Black"

\* TRUE when board.parse_san(move_str) returns a move, FALSE when it raises ValueError.
parse_san(b, move_str) ==
    CASE move_str = "e4"  -> turn(b) = "White" /\ "e4" \notin Range(b)
      [] move_str = "Nf3" -> turn(b) = "White" /\ "Nf3" \notin Range(b)
      [] move_str = "Qh5" -> /\ turn(b) = "White"
                             /\ "e4" \in Range(b)
                             /\ "Nf3" \notin Range(b)
                             /\ "Qh5" \notin Range(b)
      [] move_str = "e5"  -> turn(b) = "Black" /\ "e5" \notin Range(b)
      [] move_str = "Nc6" -> turn(b) = "Black" /\ "Nc6" \notin Range(b)
      [] OTHER -> FALSE

push(b, move) == Append(b, move)

\* board.fen(): the placement (here the moves that led to it), the side to
\* move and the full-move counter.
fen(b) ==
    [placement |-> b,
     turn |-> IF turn(b) = "White" THEN "w" ELSE "b",
     fullmove |-> Len(b) \div 2 + 1]

\* chess.Board(fen).turn
fen_turn(f) == IF f.turn = "w" THEN "White" ELSE "Black"

(***************************************************************************)
(* Engine scores (chess.engine.Score).  Cp(n) is [kind "cp"]; Mate(n) is   *)
(* [kind "mate"], where n > 0 mates in n, n < 0 is mated in -n and n = 0   *)
(* is mated now (the position is checkmate); MateGiven, the negation of    *)
(* Mate(0), is [kind "mategiven"].                                         *)
(***************************************************************************)
Cp(n) == [kind |-> "cp", n |-> n]
Mate(n) == [kind |-> "mate", n |-> n]
MateGiven == [kind |-> "mategiven", n |-> 0]

is_mate(score) == score.kind # "cp"
mate(score) == score.n

\* Score.__neg__
Neg(score) ==
    CASE score.kind = "cp" -> Cp(-score.n)
      [] score.kind = "mate" /\ score.n # 0 -> Mate(-score.n)
      [] score.kind = "mate" /\ score.n = 0 -> MateGiven
      [] OTHER -> Mate(0)

\* PovScore(relative, turn).pov(color)
pov(relative, t, color) == IF t = color THEN relative ELSE Neg(relative)

\* score > Cp(0), score < Cp(0) in python-chess's order of scores.
Winning(score) ==
    \/ score.kind = "cp" /\ score.n > 0
    \/ score.kind = "mate" /\ score.n > 0
    \/ score.kind = "mategiven"
Losing(score) ==
    \/ score.kind = "cp" /\ score.n < 0
    \/ score.kind = "mate" /\ score.n <= 0

\* Centipawn scores the engine reports (relative to the side to move).
CpScores == {-600, -250, -30, 0, 30, 120}

\* info["score"].relative: what the engine can report for a position.  The
\* analyzer never looks at the position itself, so the plies of the move
\* list stand for any plies of a game and every score may follow any move.
EngineScores ==
    {Cp(c) : c \in CpScores} \cup {Mate(m) : m \in (-MaxMate)..MaxMate}

\* info: the score and the principal variation; a position that is
\* checkmate has no move to recommend.
EngineInfos ==
    {[kind |-> "info", score |-> s,
      pv |-> IF s = Mate(0) THEN <<>> ELSE <<"pv0">>] : s \in EngineScores}

\* What a request to the evaluation source ends in: an info, None (the
\* source is unavailable: the test of line 191) or an engine error raised.
EngineReplies ==
    EngineInfos \cup {[kind |-> "None"], [kind |-> "EngineError"]}

\* Lines 34-36: the scaled mate value.
mate_value(score) ==
    LET v == 10000 + 10000 \div Max(1, Abs(mate(score)))
    IN  IF mate(score) < 0 THEN -v ELSE v

\* Lines 26-50: the dict built from info.
get_stockfish_evaluation_local(info) ==
    LET score == info.score
        bestmove == IF info.pv # <<>> THEN info.pv[1] ELSE "None"
    IN  IF is_mate(score)
        THEN [eval |-> mate_value(score),
              mate_in |-> Abs(mate(score)),
              is_mate |-> TRUE,
              bestmove |-> bestmove]
        ELSE [eval |-> score.n * 10,
              mate_in |-> -1,          \* None
              is_mate |-> FALSE,
              bestmove |-> bestmove]

(***************************************************************************)
(* Lines 84-90: 1 / (1 + math.exp(-0.00368208 * eval_score * 100)).        *)
(* exp_table holds the value of that expression, rounded to 1e-7, for the  *)
(* evaluations that occur: the centipawn scores and their negations, and   *)
(* the mate values 10.0 + 10.0 / d for d = 1..7 (at 10000 + 10000 \div d). *)
(* The last two rows are 99.78 and 100 pawns: from 99.78 pawns on          *)
(* math.exp(...) is below 2^-53, the float sum 1 + math.exp(...) is 1.0    *)
(* and so is the quotient (at 99.77 pawns it is still 0.9999999999999998). *)
(***************************************************************************)
One == 10000000

\* Python's None, a value apart from every evaluation.
None == -1000000000

exp_table ==
    (-20000 :> 6332) @@ (-15000 :> 39775) @@ (-13333 :> 73226) @@
    (-12500 :> 99262) @@ (-12000 :> 119088) @@ (-11666 :> 134430) @@
    (-11428 :> 146567) @@ (-6000 :> 989231) @@
    (-2500 :> 2848520) @@ (-1200 :> 3913003) @@ (-300 :> 4724124) @@
    (0 :> 5000000) @@
    (300 :> 5275876) @@ (1200 :> 6086997) @@ (2500 :> 7151480) @@
    (6000 :> 9010769) @@
    (11428 :> 9853433) @@ (11666 :> 9865570) @@ (12000 :> 9880912) @@
    (12500 :> 9900738) @@ (13333 :> 9926774) @@ (15000 :> 9960225) @@
    (20000 :> 9993668) @@
    (99780 :> 10000000) @@ (100000 :> 10000000)

\* The exponent taken without its minus sign.
eval_to_win_probability_sign(eval_score) ==
    IF eval_score = None THEN One \div 2 ELSE One - exp_table[eval_score]

\* Lines 84-90.
eval_to_win_probability(eval_score) ==
    IF eval_score = None THEN One \div 2 ELSE exp_table[eval_score]

\* The chain with each boundary given to the higher-severity label.
chess_com_classification_strict(win_prob_change) ==
    IF win_prob_change < 0 THEN "Best"
    ELSE IF win_prob_change < 200000 THEN "Excellent"
    ELSE IF win_prob_change < 500000 THEN "Good"
    ELSE IF win_prob_change < 1000000 THEN "Inaccuracy"
    ELSE IF win_prob_change < 2000000 THEN "Mistake"
    ELSE "Blunder"

\* Lines 122-133: the label of a drop in win probability (units of 1e-7).
chess_com_classification(win_prob_change) ==
    IF win_prob_change <= 0 THEN "Best"
    ELSE IF 0 < win_prob_change /\ win_prob_change <= 200000 THEN "Excellent"
    ELSE IF 200000 < win_prob_change /\ win_prob_change <= 500000 THEN "Good"
    ELSE IF 500000 < win_prob_change /\ win_prob_change <= 1000000 THEN "Inaccuracy"
    ELSE IF 1000000 < win_prob_change /\ win_prob_change <= 2000000 THEN "Mistake"
    ELSE "Blunder"

\* The change taken as current minus previous.
win_prob_change_of_reversed(current_eval, prev_eval) ==
    eval_to_win_probability(current_eval) - eval_to_win_probability(prev_eval)

\* Lines 117-119.
win_prob_change_of(current_eval, prev_eval) ==
    LET current_win_prob == eval_to_win_probability(current_eval)
        previous_win_prob == eval_to_win_probability(prev_eval)
    IN  previous_win_prob - current_win_prob

\* classify_move without the mate-transition rules.
classify_move_thresholds_only(current_eval, prev_eval, current_is_mate, previous_is_mate) ==
    chess_com_classification(win_prob_change_of(current_eval, prev_eval))

\* Lines 92-133 (prev_eval is the parameter previous_eval).
classify_move(current_eval, prev_eval, current_is_mate, previous_is_mate) ==
    IF current_is_mate /\ ~previous_is_mate
    THEN IF current_eval > 0 THEN "Best" ELSE "Blunder"
    ELSE IF previous_is_mate /\ ~current_is_mate
    THEN IF prev_eval > 0 THEN "Blunder" ELSE "Best"
    ELSE chess_com_classification(win_prob_change_of(current_eval, prev_eval))

\* The move number counted from the ply without the + 1.
process_game_for_analysis_number_off(moves, fens) ==
    [j \in 1..(Len(fens) - 1) |->
        [move_number |-> j \div 2 + 1,
         move_notation |-> moves[j],
         player |-> IF j % 2 = 1 THEN "White" ELSE "Black",
         fen |-> fens[j + 1],
         move_played |-> moves[j]]]

\* The enumeration not skipping the initial position.
process_game_for_analysis_with_initial(moves, fens) ==
    [j \in 1..(Len(fens) - 1) |->
        [move_number |-> (j + 1) \div 2,
         move_notation |-> moves[j],
         player |-> IF j % 2 = 1 THEN "White" ELSE "Black",
         fen |-> fens[j],
         move_played |-> moves[j]]]

\* Lines 160-180: one dict per position after the first.
process_game_for_analysis(moves, fens) ==
    [j \in 1..(Len(fens) - 1) |->
        [move_number |-> (j + 1) \div 2,
         move_notation |-> moves[j],
         player |-> IF j % 2 = 1 THEN "White" ELSE "Black",
         fen |-> fens[j + 1],
         move_played |-> moves[j]]]

(***************************************************************************)
(* The analysis of one game.                                               *)
(***************************************************************************)
Pending == [kind |-> "pending"]
Idle == [pc |-> "idle"]

MoveLists == UNION {[1..n -> Sans] : n \in 0..MaxMoves}

\* After BlunderDetection() (lines 10-11): the engine runs, nothing was called.
AnalyzerConstructed ==
    /\ engine = "running"
    /\ popen_calls = 1
    /\ close_calls = 0
    /\ history = <<>>

\* No import is running and the database is empty.
ImportIdle ==
    /\ dataset = <<>>
    /\ runs = <<>>
    /\ batch_size = 1
    /\ max_games = None
    /\ ipc = "idle"
    /\ df = <<>>
    /\ batch_i = 0
    /\ row = 0
    /\ blunder_data = <<>>
    /\ blunder_j = 0
    /\ blunder_id = ""
    /\ nodes = {}
    /\ rels = {}
    /\ uuid_calls = 0
    /\ db = "unset"
    /\ models = "unset"
    /\ exc = "none"

Init ==
    /\ game_moves \in MoveLists
    /\ pc = "convert"
    /\ board = Board
    /\ positions = <<fen(Board)>>
    /\ k = 1
    /\ convert_ret = Pending
    /\ records = <<>>
    /\ i = 0
    /\ previous_eval = 0
    /\ outcome = Pending
    /\ engine_log = <<>>
    /\ stdout = <<>>
    /\ call = Idle
    /\ AnalyzerConstructed
    /\ ImportIdle

\* Lines 145-152: the move parses; it is pushed and the position recorded.
ParseMove ==
    /\ pc = "convert"
    /\ k <= Len(game_moves)
    /\ parse_san(board, game_moves[k])
    /\ board' = push(board, game_moves[k])
    /\ positions' = Append(positions, fen(board'))
    /\ k' = k + 1
    /\ UNCHANGED <<game_moves, pc, convert_ret, records, i, previous_eval,
                   outcome, engine_log, stdout, call,
                   analyzerVars, importVars>>

\* The except clause going on to the next move instead of breaking.
ParseError_continue ==
    /\ pc = "convert"
    /\ k <= Len(game_moves)
    /\ ~parse_san(board, game_moves[k])
    /\ stdout' = stdout \o <<[text |-> "Error parsing move", arg |-> game_moves[k]],
                             [text |-> "ValueError", arg |-> game_moves[k]]>>
    /\ k' = k + 1
    /\ UNCHANGED <<game_moves, pc, board, positions, convert_ret, records, i,
                   previous_eval, outcome, engine_log, call,
                   analyzerVars, importVars>>

\* Lines 153-158: parse_san raised ValueError; print, break, return.
ParseError ==
    /\ pc = "convert"
    /\ k <= Len(game_moves)
    /\ ~parse_san(board, game_moves[k])
    /\ stdout' = stdout \o <<[text |-> "Error parsing move", arg |-> game_moves[k]],
                             [text |-> "ValueError", arg |-> game_moves[k]]>>
    /\ convert_ret' = [kind |-> "list", positions |-> positions]
    /\ pc' = "process"
    /\ UNCHANGED <<game_moves, board, positions, k, records, i, previous_eval,
                   outcome, engine_log, call,
                   analyzerVars, importVars>>

\* Line 158 after the last move.
ConvertReturn ==
    /\ pc = "convert"
    /\ k > Len(game_moves)
    /\ convert_ret' = [kind |-> "list", positions |-> positions]
    /\ pc' = "process"
    /\ UNCHANGED <<game_moves, board, positions, k, records, i, previous_eval,
                   outcome, engine_log, stdout, call,
                   analyzerVars, importVars>>

\* Lines 135-158.
convert_moves_to_positions == ParseMove \/ ParseError \/ ConvertReturn

\* Lines 162-180 and 184-186: the dicts are built, previous_eval = 0.
ProcessGame ==
    /\ pc = "process"
    /\ records' = process_game_for_analysis(game_moves, convert_ret.positions)
    /\ previous_eval' = 0
    /\ i' = 0
    /\ pc' = "analyze"
    /\ UNCHANGED <<game_moves, board, positions, k, convert_ret, outcome,
                   engine_log, stdout, call,
                   analyzerVars, importVars>>

\* Lines 189-202 with an evaluation: the dict gets eval, bestmove, is_mate.
Evaluate(info) ==
    /\ pc = "analyze"
    /\ i < Len(records)
    /\ info.kind = "info"
    /\ LET position == records[i + 1]
           eval_data == get_stockfish_evaluation_local(info)
           current_eval == IF position.player = "Black"
                           THEN -eval_data.eval ELSE eval_data.eval
       IN  /\ engine_log' = Append(engine_log, [fen |-> position.fen, reply |-> info])
           /\ records' = [records EXCEPT ![i + 1] =
                            [eval |-> current_eval,
                             bestmove |-> eval_data.bestmove,
                             is_mate |-> eval_data.is_mate] @@ position]
    /\ pc' = "classify"
    /\ UNCHANGED <<game_moves, board, positions, k, convert_ret, i,
                   previous_eval, outcome, stdout, call,
                   analyzerVars, importVars>>

\* The missing evaluation ending the loop with the list built so far.
EvaluateUnavailable_partial(info) ==
    /\ pc = "analyze"
    /\ i < Len(records)
    /\ info.kind = "None"
    /\ engine_log' = Append(engine_log, [fen |-> records[i + 1].fen, reply |-> info])
    /\ stdout' = Append(stdout, [text |-> "ERROR: No eval data for position",
                                 arg |-> records[i + 1].fen])
    /\ outcome' = [kind |-> "list", records |-> SubSeq(records, 1, i)]
    /\ pc' = "done"
    /\ UNCHANGED <<game_moves, board, positions, k, convert_ret, records, i,
                   previous_eval, call,
                   analyzerVars, importVars>>

\* Lines 189-193: no evaluation data; print and return None.
EvaluateUnavailable(info) ==
    /\ pc = "analyze"
    /\ i < Len(records)
    /\ info.kind = "None"
    /\ engine_log' = Append(engine_log, [fen |-> records[i + 1].fen, reply |-> info])
    /\ stdout' = Append(stdout, [text |-> "ERROR: No eval data for position",
                                 arg |-> records[i + 1].fen])
    /\ outcome' = [kind |-> "None"]
    /\ pc' = "done"
    /\ UNCHANGED <<game_moves, board, positions, k, convert_ret, records, i,
                   previous_eval, call,
                   analyzerVars, importVars>>

\* Line 24 (called at line 189): engine.analyse raises; nothing catches it.
EvaluateRaises(info) ==
    /\ pc = "analyze"
    /\ i < Len(records)
    /\ info.kind = "EngineError"
    /\ engine_log' = Append(engine_log, [fen |-> records[i + 1].fen, reply |-> info])
    /\ outcome' = [kind |-> "raised", exc |-> "EngineError"]
    /\ pc' = "done"
    /\ UNCHANGED <<game_moves, board, positions, k, convert_ret, records, i,
                   previous_eval, stdout, call,
                   analyzerVars, importVars>>

\* The Opening branch taken for the first two plies.
Classify_opening_late ==
    /\ pc = "classify"
    /\ LET position == records[i + 1]
           current_eval == position.eval
       IN  /\ records' = [records EXCEPT ![i + 1] =
                IF i > 1
                THEN [eval_change |-> previous_eval - current_eval,
                      move_class |-> classify_move(current_eval, previous_eval,
                                                   position.is_mate,
                                                   records[i].is_mate)] @@ position
                ELSE [eval_change |-> 0, move_class |-> "Opening"] @@ position]
           /\ previous_eval' = current_eval
    /\ i' = i + 1
    /\ pc' = "analyze"
    /\ UNCHANGED <<game_moves, board, positions, k, convert_ret, outcome,
                   engine_log, stdout, call,
                   analyzerVars, importVars>>

\* eval_change taken as current minus previous.
Classify_change_reversed ==
    /\ pc = "classify"
    /\ LET position == records[i + 1]
           current_eval == position.eval
       IN  /\ records' = [records EXCEPT ![i + 1] =
                IF i > 0
                THEN [eval_change |-> current_eval - previous_eval,
                      move_class |-> classify_move(current_eval, previous_eval,
                                                   position.is_mate,
                                                   records[i].is_mate)] @@ position
                ELSE [eval_change |-> 0, move_class |-> "Opening"] @@ position]
           /\ previous_eval' = current_eval
    /\ i' = i + 1
    /\ pc' = "analyze"
    /\ UNCHANGED <<game_moves, board, positions, k, convert_ret, outcome,
                   engine_log, stdout, call,
                   analyzerVars, importVars>>

\* Lines 204-216: eval_change and move_class; previous_eval moves on.
Classify ==
    /\ pc = "classify"
    /\ LET position == records[i + 1]
           current_eval == position.eval
       IN  /\ records' = [records EXCEPT ![i + 1] =
                IF i > 0
                THEN [eval_change |-> previous_eval - current_eval,
                      move_class |-> classify_move(current_eval, previous_eval,
                                                   position.is_mate,
                                                   records[i].is_mate)] @@ position
                ELSE [eval_change |-> 0, move_class |-> "Opening"] @@ position]
           /\ previous_eval' = current_eval
    /\ i' = i + 1
    /\ pc' = "analyze"
    /\ UNCHANGED <<game_moves, board, positions, k, convert_ret, outcome,
                   engine_log, stdout, call,
                   analyzerVars, importVars>>

\* Line 218.
AnalyzeReturn ==
    /\ pc = "analyze"
    /\ i >= Len(records)
    /\ outcome' = [kind |-> "list", records |-> records]
    /\ pc' = "done"
    /\ UNCHANGED <<game_moves, board, positions, k, convert_ret, records, i,
                   previous_eval, engine_log, stdout, call,
                   analyzerVars, importVars>>

\* Lines 182-218.
analyze_game_for_blunders ==
    \/ ProcessGame
    \/ \E info \in EngineReplies :
          Evaluate(info) \/ EvaluateUnavailable(info) \/ EvaluateRaises(info)
    \/ Classify
    \/ AnalyzeReturn

Next == convert_moves_to_positions \/ analyze_game_for_blunders

Spec == Init /\ [][Next]_vars

(***************************************************************************)
(* classify_move and its threshold chain called directly, on every pair of *)
(* evaluations a dict can hold and on drops around every threshold.        *)
(***************************************************************************)
\* What analyze_game_for_blunders stores as eval and is_mate (lines 195-202).
DictEvals ==
    {[eval |-> sg * get_stockfish_evaluation_local(info).eval,
      is_mate |-> get_stockfish_evaluation_local(info).is_mate] :
        info \in EngineInfos, sg \in {1, -1}}

\* Drops in win probability at, just below and just above each threshold.
Changes ==
    {t + d : t \in {0, 200000, 500000, 1000000, 2000000}, d \in {-1, 0, 1}}
        \cup {-One, One}

\* The arguments of a call of classify_move: what a dict holds, or None
\* with the mate flag left at its default.
ClassifyArgs == DictEvals \cup {[eval |-> None, is_mate |-> FALSE]}

ClassifyFrames ==
    {[pc |-> "classify_move",
      current_eval |-> c.eval, previous_eval |-> p.eval,
      current_is_mate |-> c.is_mate, previous_is_mate |-> p.is_mate,
      ret |-> "pending"] : c \in ClassifyArgs, p \in ClassifyArgs}

\* The arguments of a call of eval_to_win_probability.
WinProbInputs == DOMAIN exp_table

WinProbFrames ==
    {[pc |-> "eval_to_win_probability", eval_score |-> e,
      returned |-> FALSE, raised |-> FALSE, ret |-> 0] :
        e \in WinProbInputs \cup {None}}

\* The arguments of a call of get_stockfish_evaluation_local: what
\* engine.analyse returned for the position.
EvalLocalFrames ==
    {[pc |-> "get_stockfish_evaluation_local", info |-> info,
      returned |-> FALSE, ret |-> Pending] : info \in EngineInfos}

\* Line 61: the timeout of the request, in seconds.
RequestTimeout == 10

\* data.get("bestmove", ""): the key missing, null, or a string, which is
\* held as what split() makes of it.
BestmoveFields ==
    {[kind |-> "missing"], [kind |-> "null"],
     [kind |-> "str", tokens |-> <<>>],
     [kind |-> "str", tokens |-> <<"e2e4">>],
     [kind |-> "str", tokens |-> <<"bestmove", "e2e4", "ponder", "e7e5">>]}

\* What response.json() has to parse: no JSON, JSON that is no object, or
\* an object with its success, evaluation and bestmove keys.
Payloads ==
    {[json |-> j] : j \in {"invalid", "array", "null"}}
        \cup {[json |-> "object", success |-> su, has_evaluation |-> he,
               bestmove |-> bm] :
                 su \in {"missing", "false", "true"}, he \in BOOLEAN,
                 bm \in BestmoveFields}

\* What requests.get ends in: an exception of requests (connection error,
\* timeout) or a response.
Responses ==
    {[kind |-> "RequestException"]}
        \cup {[kind |-> "response", status_code |-> sc, payload |-> p] :
                 sc \in {200, 404, 500}, p \in Payloads}

\* Lines 52-82 on what requests.get ended in.  None is [kind "None"], an
\* exception leaving the function is [kind "raised"].
get_stockfish_evaluation(response) ==
    LET data == response.payload
        unavailable == [kind |-> "None"]
    IN  IF response.kind = "RequestException" THEN unavailable
        ELSE IF response.status_code # 200 THEN unavailable
        ELSE IF data.json = "invalid" THEN unavailable
        ELSE IF data.json # "object"
        THEN [kind |-> "raised", exc |-> "AttributeError"]
        ELSE IF data.success # "true" THEN unavailable
        ELSE IF data.bestmove.kind = "null"
        THEN [kind |-> "raised", exc |-> "AttributeError"]
        ELSE IF data.bestmove.kind = "missing" THEN unavailable
        ELSE IF Len(data.bestmove.tokens) < 2 THEN unavailable
        ELSE [kind |-> "dict",
              eval |-> IF data.has_evaluation THEN 350 ELSE 0,
              bestmove |-> data.bestmove.tokens[2]]

\* The arguments of a call of get_stockfish_evaluation: what the request
\* ends in.
RemoteFrames ==
    {[pc |-> "get_stockfish_evaluation", response |-> r, timeout |-> 0,
      returned |-> FALSE, ret |-> Pending] : r \in Responses}

ChainFrames ==
    {[pc |-> "chain", win_prob_change |-> d, ret |-> "pending"] : d \in Changes}

InitClassify ==
    /\ game_moves = <<>>
    /\ pc = "idle"
    /\ board = Board
    /\ positions = <<>>
    /\ k = 1
    /\ convert_ret = Pending
    /\ records = <<>>
    /\ i = 0
    /\ previous_eval = 0
    /\ outcome = Pending
    /\ engine_log = <<>>
    /\ stdout = <<>>
    /\ call \in ClassifyFrames \cup ChainFrames \cup WinProbFrames
                \cup EvalLocalFrames \cup RemoteFrames
    /\ AnalyzerConstructed
    /\ ImportIdle

\* Lines 92-133 on the frame's arguments.
ClassifyMoveCall ==
    /\ call.pc = "classify_move"
    /\ call.ret = "pending"
    /\ call' = [call EXCEPT !.ret =
                    classify_move(call.current_eval, call.previous_eval,
                                  call.current_is_mate, call.previous_is_mate)]
    /\ UNCHANGED <<game_moves, pc, board, positions, k, convert_ret, records,
                   i, previous_eval, outcome, engine_log, stdout,
                   analyzerVars, importVars>>

\* Lines 122-133 on the frame's win_prob_change.
ChainCall ==
    /\ call.pc = "chain"
    /\ call.ret = "pending"
    /\ call' = [call EXCEPT !.ret = chess_com_classification(call.win_prob_change)]
    /\ UNCHANGED <<game_moves, pc, board, positions, k, convert_ret, records,
                   i, previous_eval, outcome, engine_log, stdout,
                   analyzerVars, importVars>>

\* Lines 84-90 on the frame's eval_score: the function returns, it never raises.
WinProbCall ==
    /\ call.pc = "eval_to_win_probability"
    /\ ~call.returned
    /\ call' = [call EXCEPT !.returned = TRUE,
                            !.ret = eval_to_win_probability(call.eval_score)]
    /\ UNCHANGED <<game_moves, pc, board, positions, k, convert_ret, records,
                   i, previous_eval, outcome, engine_log, stdout,
                   analyzerVars, importVars>>

\* Lines 22-50 on the frame's info.
EvalLocalCall ==
    /\ call.pc = "get_stockfish_evaluation_local"
    /\ ~call.returned
    /\ call' = [call EXCEPT !.returned = TRUE,
                            !.ret = get_stockfish_evaluation_local(call.info)]
    /\ UNCHANGED <<game_moves, pc, board, positions, k, convert_ret, records,
                   i, previous_eval, outcome, engine_log, stdout,
                   analyzerVars, importVars>>

\* Lines 52-82 on the frame's response.
RemoteCall ==
    /\ call.pc = "get_stockfish_evaluation"
    /\ ~call.returned
    /\ call' = [call EXCEPT !.returned = TRUE,
                            !.timeout = RequestTimeout,
                            !.ret = get_stockfish_evaluation(call.response)]
    /\ UNCHANGED <<game_moves, pc, board, positions, k, convert_ret, records,
                   i, previous_eval, outcome, engine_log, stdout,
                   analyzerVars, importVars>>

NextClassify ==
    ClassifyMoveCall \/ ChainCall \/ WinProbCall \/ EvalLocalCall \/ RemoteCall

SpecClassify == InitClassify /\ [][NextClassify]_vars

(***************************************************************************)
(* Several calls of analyze_game_for_blunders on one analyzer, with an     *)
(* evaluation source that answers a position as it answered it before.     *)
(***************************************************************************)
\* Most calls made on one analyzer.
MaxCalls == 3

\* The move lists the calls are made on.
CallGames ==
    {<<"e4", "e5", "Qh5">>, <<"e4", "e5">>, <<"Nf3", "Nc6">>, <<"e4", "Zz9">>}

\* What the source answers in these calls and in an import.
StubReplies ==
    {r \in EngineReplies : r.kind = "info" => r.score \in {Cp(120), Cp(0), Cp(-600)}}

\* The source is deterministic: a position it was asked before gets the
\* reply it got then.
Deterministic(info) ==
    /\ pc = "analyze"
    /\ i < Len(records)
    /\ \A e \in Range(engine_log) : e.fen = records[i + 1].fen => e.reply = info

\* The call starting from the board the call before it left.
Enter_board_kept(moves) ==
    /\ game_moves' = moves
    /\ pc' = "convert"
    /\ positions' = <<fen(board)>>
    /\ k' = 1
    /\ convert_ret' = Pending
    /\ records' = <<>>
    /\ i' = 0
    /\ previous_eval' = 0
    /\ outcome' = Pending
    /\ UNCHANGED <<board, engine_log, stdout>>

\* Line 182 and lines 137-141: analyze_game_for_blunders is entered; its
\* locals and those of convert_moves_to_positions are new.
Enter(moves) ==
    /\ game_moves' = moves
    /\ pc' = "convert"
    /\ board' = Board
    /\ positions' = <<fen(Board)>>
    /\ k' = 1
    /\ convert_ret' = Pending
    /\ records' = <<>>
    /\ i' = 0
    /\ previous_eval' = 0
    /\ outcome' = Pending
    /\ UNCHANGED <<engine_log, stdout>>

InitCalls ==
    /\ game_moves \in CallGames
    /\ pc = "convert"
    /\ board = Board
    /\ positions = <<fen(Board)>>
    /\ k = 1
    /\ convert_ret = Pending
    /\ records = <<>>
    /\ i = 0
    /\ previous_eval = 0
    /\ outcome = Pending
    /\ engine_log = <<>>
    /\ stdout = <<>>
    /\ call = Idle
    /\ AnalyzerConstructed
    /\ ImportIdle

\* The call has returned or raised; the caller notes what it got and calls
\* again on the same analyzer.
NewCall ==
    /\ pc = "done"
    /\ ipc = "idle"
    /\ Len(history) + 1 < MaxCalls
    /\ history' = Append(history, [moves |-> game_moves, outcome |-> outcome])
    /\ \E moves \in CallGames : Enter(moves)
    /\ UNCHANGED <<call, engine, popen_calls, close_calls, importVars>>

\* Lines 182-218 with the deterministic source.
analyze_with_stub ==
    \/ ProcessGame
    \/ \E info \in StubReplies :
          /\ Deterministic(info)
          /\ Evaluate(info) \/ EvaluateUnavailable(info) \/ EvaluateRaises(info)
    \/ Classify
    \/ AnalyzeReturn

NextCalls == convert_moves_to_positions \/ analyze_with_stub \/ NewCall

SpecCalls == InitCalls /\ [][NextCalls]_vars

(***************************************************************************)
(* import_data_to_neo4j (src/src/modules/database/queries.py) and the      *)
(* graph it writes through GraphModels (src/src/modules/database/models.py)*)
(***************************************************************************)
\* Most rows of the dataset.
MaxGames == 2
\* Largest batch_size.
MaxBatch == 2

Min(a, b) == IF a <= b THEN a ELSE b

\* Rows of games.csv: the columns the import reads.
Rows ==
    {[id |-> "g1", moves |-> <<"e4", "e5", "Qh5">>,
      white_id |-> "alice", black_id |-> "bob", opening_eco |-> "C20"],
     [id |-> "g2", moves |-> <<"e4", "Zz9">>,
      white_id |-> "bob", black_id |-> "alice", opening_eco |-> "B00"]}

Datasets == UNION {[1..n -> Rows] : n \in 0..MaxGames}

\* MERGE (n:Label {key}) ON CREATE SET ...: if a node with the label and
\* key is found it is kept as it is, otherwise n is created.
merge_node(ns, n, found) == IF found THEN ns ELSE ns \cup {n}

\* models.py lines 15-31, 33-51, 60-72, 74-98.
create_player(ns, id) ==
    merge_node(ns, [label |-> "Player", id |-> id, username |-> id],
               \E o \in ns : o.label = "Player" /\ o.id = id)
create_game(ns, id, pgn) ==
    merge_node(ns, [label |-> "Game", id |-> id, pgn |-> pgn],
               \E o \in ns : o.label = "Game" /\ o.id = id)
create_opening(ns, eco_code) ==
    merge_node(ns, [label |-> "Opening", eco_code |-> eco_code],
               \E o \in ns : o.label = "Opening" /\ o.eco_code = eco_code)
create_blunder(ns, id, b, severity) ==
    merge_node(ns, [label |-> "Blunder", id |-> id,
                    move_number |-> b.move_number,
                    move_notation |-> b.move_notation,
                    best_move |-> b.bestmove,
                    position_fen |-> b.fen,
                    eval |-> b.eval,
                    eval_change |-> b.eval_change,
                    is_mate |-> b.is_mate,
                    severity |-> severity],
               \E o \in ns : o.label = "Blunder" /\ o.id = id)

\* models.py line 53-58: the rows MATCH (g:Game {id}) returns.
find_game_by_id(ns, id) == {o \in ns : o.label = "Game" /\ o.id = id}

has_node(ns, label, id) == \E o \in ns : o.label = label /\ o.id = id

\* models.py lines 100-106, 108-120, 122-132, 134-145: MATCH both ends,
\* MERGE the relationship.
connect_blunder_to_game(ns, rs, b_id, game_id) ==
    IF has_node(ns, "Blunder", b_id) /\ has_node(ns, "Game", game_id)
    THEN rs \cup {[type |-> "IN", blunder |-> b_id, game |-> game_id]}
    ELSE rs
connect_player_to_game(ns, rs, player_id, game_id, color) ==
    IF has_node(ns, "Player", player_id) /\ has_node(ns, "Game", game_id)
    THEN rs \cup {[type |-> "PLAYED_IN", player |-> player_id,
                   game |-> game_id, color |-> color]}
    ELSE rs
connect_game_to_opening(ns, rs, game_id, opening_eco) ==
    IF has_node(ns, "Game", game_id)
       /\ \E o \in ns : o.label = "Opening" /\ o.eco_code = opening_eco
    THEN rs \cup {[type |-> "USES", game |-> game_id, opening |-> opening_eco]}
    ELSE rs
connect_player_to_blunder(ns, rs, player_id, b_id) ==
    IF has_node(ns, "Player", player_id) /\ has_node(ns, "Blunder", b_id)
    THEN rs \cup {[type |-> "MADE_BLUNDER", player |-> player_id, blunder |-> b_id]}
    ELSE rs

\* Line 143: str(uuid.uuid4()), an identifier no earlier call gave.
uuid4(n) == ToString(n + 1)

\* Lines 155-157.
severity_of(b) ==
    IF Abs(b.eval_change) > 2000 \/ b.is_mate THEN "high"
    ELSE IF Abs(b.eval_change) > 1000 THEN "medium"
    ELSE "low"

\* Line 57: batch = df.iloc[i:i+batch_size]; line 65: the row visited next.
batch == SubSeq(df, batch_i + 1, Min(batch_i + batch_size, Len(df)))
game == batch[row + 1]
\* Line 140: the dict visited next.
blunder == blunder_data[blunder_j + 1]

\* The test of line 141 taking a Mistake for a Blunder as well.
is_blunder_or_mistake(b) == b.move_class \in {"Blunder", "Mistake"}

\* Line 141.
is_blunder(b) == b.move_class = "Blunder"

\* Line 167.
player_id_of(b, g) == IF b.player = "White" THEN g.white_id ELSE g.black_id

\* BlunderDetection.close (lines 13-16) on the engine handle.
close(e) == IF e = "running" THEN "closed" ELSE e

InitImport ==
    /\ dataset \in Datasets
    /\ runs = <<>>
    /\ batch_size \in 1..MaxBatch
    /\ max_games \in {None} \cup 0..MaxGames
    /\ ipc = "start"
    /\ df = <<>>
    /\ batch_i = 0
    /\ row = 0
    /\ blunder_data = <<>>
    /\ blunder_j = 0
    /\ blunder_id = ""
    /\ nodes = {}
    /\ rels = {}
    /\ uuid_calls = 0
    /\ db = "unset"
    /\ models = "unset"
    /\ exc = "none"
    /\ engine = "unset"
    /\ popen_calls = 0
    /\ close_calls = 0
    /\ history = <<>>
    /\ game_moves = <<>>
    /\ pc = "idle"
    /\ board = Board
    /\ positions = <<>>
    /\ k = 1
    /\ convert_ret = Pending
    /\ records = <<>>
    /\ i = 0
    /\ previous_eval = 0
    /\ outcome = Pending
    /\ engine_log = <<>>
    /\ stdout = <<>>
    /\ call = Idle

\* Lines 39-41: the connection, the models with their own connection, the
\* analyzer with its engine.
Construct ==
    /\ ipc = "start"
    /\ db' = "open"
    /\ models' = "open"
    /\ engine' = "running"
    /\ popen_calls' = popen_calls + 1
    /\ ipc' = "load"
    /\ UNCHANGED <<gameVars, call, close_calls, history, dataset, runs, batch_size,
                   max_games, df, batch_i, row, blunder_data, blunder_j,
                   blunder_id, nodes, rels, uuid_calls, exc>>

\* Line 41 raising (popen_uci finds no engine): lines 39-40 have run, the
\* try statement of line 43 is not entered.
ConstructRaises ==
    /\ ipc = "start"
    /\ db' = "open"
    /\ models' = "open"
    /\ exc' = "EngineError"
    /\ ipc' = "raised"
    /\ UNCHANGED <<gameVars, call, analyzerVars, dataset, runs, batch_size,
                   max_games, df, batch_i, row, blunder_data, blunder_j,
                   blunder_id, nodes, rels, uuid_calls>>

\* Lines 45-53: the frame is loaded and cut to max_games.
LoadData ==
    /\ ipc = "load"
    /\ df' = IF max_games # None /\ max_games # 0 /\ max_games < Len(dataset)
             THEN SubSeq(dataset, 1, max_games)
             ELSE dataset
    /\ batch_i' = 0
    /\ ipc' = "batch"
    /\ UNCHANGED <<gameVars, call, analyzerVars, dataset, runs, batch_size,
                   max_games, row, blunder_data, blunder_j, blunder_id,
                   nodes, rels, uuid_calls, db, models, exc>>

\* Line 45: load_chess_data raises.
LoadRaises ==
    /\ ipc = "load"
    /\ exc' = "LoadError"
    /\ ipc' = "finally"
    /\ UNCHANGED <<gameVars, call, analyzerVars, dataset, runs, batch_size,
                   max_games, df, batch_i, row, blunder_data, blunder_j,
                   blunder_id, nodes, rels, uuid_calls, db, models>>

\* Lines 56-63: the next batch.
BatchStart ==
    /\ ipc = "batch"
    /\ batch_i < Len(df)
    /\ row' = 0
    /\ ipc' = "game"
    /\ UNCHANGED <<gameVars, call, analyzerVars, dataset, runs, batch_size,
                   max_games, df, batch_i, blunder_data, blunder_j,
                   blunder_id, nodes, rels, uuid_calls, db, models, exc>>

\* Line 56: no batch is left; the try block ends.
BatchesDone ==
    /\ ipc = "batch"
    /\ batch_i >= Len(df)
    /\ ipc' = "finally"
    /\ UNCHANGED <<gameVars, call, analyzerVars, dataset, runs, batch_size,
                   max_games, df, batch_i, row, blunder_data, blunder_j,
                   blunder_id, nodes, rels, uuid_calls, db, models, exc>>

\* The game found in the database analysed all the same.
SkipGame_reanalyse ==
    /\ ipc = "game"
    /\ row < Len(batch)
    /\ find_game_by_id(nodes, game.id) # {}
    /\ Enter(game.moves)
    /\ ipc' = "analysing"
    /\ UNCHANGED <<call, analyzerVars, dataset, runs, batch_size, max_games,
                   df, batch_i, row, blunder_data, blunder_j, blunder_id,
                   nodes, rels, uuid_calls, db, models, exc>>

\* Lines 65-71: the game is in the database; continue.
SkipGame ==
    /\ ipc = "game"
    /\ row < Len(batch)
    /\ find_game_by_id(nodes, game.id) # {}
    /\ row' = row + 1
    /\ UNCHANGED <<gameVars, call, analyzerVars, dataset, runs, batch_size,
                   max_games, ipc, df, batch_i, blunder_data, blunder_j,
                   blunder_id, nodes, rels, uuid_calls, db, models, exc>>

\* The Game node written before the analysis of the game is asked for.
AnalyzeGame_game_first ==
    /\ ipc = "game"
    /\ row < Len(batch)
    /\ find_game_by_id(nodes, game.id) = {}
    /\ nodes' = create_game(nodes, game.id, game.moves)
    /\ Enter(game.moves)
    /\ ipc' = "analysing"
    /\ UNCHANGED <<call, analyzerVars, dataset, runs, batch_size, max_games, df,
                   batch_i, row, blunder_data, blunder_j, blunder_id,
                   rels, uuid_calls, db, models, exc>>

\* Lines 65-78: the game is not in the database; it is analysed.
AnalyzeGame ==
    /\ ipc = "game"
    /\ row < Len(batch)
    /\ find_game_by_id(nodes, game.id) = {}
    /\ Enter(game.moves)
    /\ ipc' = "analysing"
    /\ UNCHANGED <<call, analyzerVars, dataset, runs, batch_size, max_games, df,
                   batch_i, row, blunder_data, blunder_j, blunder_id, nodes,
                   rels, uuid_calls, db, models, exc>>

\* Lines 65 and 183: the batch has no row left; on to the next batch.
BatchComplete ==
    /\ ipc = "game"
    /\ row >= Len(batch)
    /\ batch_i' = batch_i + batch_size
    /\ ipc' = "batch"
    /\ UNCHANGED <<gameVars, call, analyzerVars, dataset, runs, batch_size,
                   max_games, df, row, blunder_data, blunder_j, blunder_id,
                   nodes, rels, uuid_calls, db, models, exc>>

\* Lines 81-83: the analysis returned None; break leaves the loop over
\* the rows of this batch, line 183 is printed and line 56 goes on.
AnalysisFailed ==
    /\ ipc = "analysing"
    /\ pc = "done"
    /\ outcome.kind = "None"
    /\ batch_i' = batch_i + batch_size
    /\ ipc' = "batch"
    /\ UNCHANGED <<gameVars, call, analyzerVars, dataset, runs, batch_size,
                   max_games, df, row, blunder_data, blunder_j, blunder_id,
                   nodes, rels, uuid_calls, db, models, exc>>

\* Line 78: the analysis raised; the exception leaves the try block.
AnalysisRaises ==
    /\ ipc = "analysing"
    /\ pc = "done"
    /\ outcome.kind = "raised"
    /\ exc' = outcome.exc
    /\ ipc' = "finally"
    /\ UNCHANGED <<gameVars, call, analyzerVars, dataset, runs, batch_size,
                   max_games, df, batch_i, row, blunder_data, blunder_j,
                   blunder_id, nodes, rels, uuid_calls, db, models>>

\* Lines 78-81: the analysis returned its list.
AnalysisReturned ==
    /\ ipc = "analysing"
    /\ pc = "done"
    /\ outcome.kind = "list"
    /\ blunder_data' = outcome.records
    /\ ipc' = "create_game"
    /\ UNCHANGED <<gameVars, call, analyzerVars, dataset, runs, batch_size,
                   max_games, df, batch_i, row, blunder_j, blunder_id,
                   nodes, rels, uuid_calls, db, models, exc>>

\* Lines 86-93.
CreateGame ==
    /\ ipc = "create_game"
    /\ nodes' = create_game(nodes, game.id, game.moves)
    /\ ipc' = "create_opening"
    /\ UNCHANGED <<gameVars, call, analyzerVars, dataset, runs, batch_size,
                   max_games, df, batch_i, row, blunder_data, blunder_j,
                   blunder_id, rels, uuid_calls, db, models, exc>>

\* Lines 96-100.
CreateOpening ==
    /\ ipc = "create_opening"
    /\ nodes' = create_opening(nodes, game.opening_eco)
    /\ ipc' = "connect_game_to_opening"
    /\ UNCHANGED <<gameVars, call, analyzerVars, dataset, runs, batch_size,
                   max_games, df, batch_i, row, blunder_data, blunder_j,
                   blunder_id, rels, uuid_calls, db, models, exc>>

\* Lines 103-106.
ConnectGameToOpening ==
    /\ ipc = "connect_game_to_opening"
    /\ rels' = connect_game_to_opening(nodes, rels, game.id, game.opening_eco)
    /\ ipc' = "create_white"
    /\ UNCHANGED <<gameVars, call, analyzerVars, dataset, runs, batch_size,
                   max_games, df, batch_i, row, blunder_data, blunder_j,
                   blunder_id, nodes, uuid_calls, db, models, exc>>

\* Lines 109-116.
CreateWhitePlayer ==
    /\ ipc = "create_white"
    /\ nodes' = create_player(nodes, game.white_id)
    /\ ipc' = "create_black"
    /\ UNCHANGED <<gameVars, call, analyzerVars, dataset, runs, batch_size,
                   max_games, df, batch_i, row, blunder_data, blunder_j,
                   blunder_id, rels, uuid_calls, db, models, exc>>

\* Lines 118-122.
CreateBlackPlayer ==
    /\ ipc = "create_black"
    /\ nodes' = create_player(nodes, game.black_id)
    /\ ipc' = "connect_white"
    /\ UNCHANGED <<gameVars, call, analyzerVars, dataset, runs, batch_size,
                   max_games, df, batch_i, row, blunder_data, blunder_j,
                   blunder_id, rels, uuid_calls, db, models, exc>>

\* Lines 125-130.
ConnectWhitePlayer ==
    /\ ipc = "connect_white"
    /\ rels' = connect_player_to_game(nodes, rels, game.white_id, game.id, "white")
    /\ ipc' = "connect_black"
    /\ UNCHANGED <<gameVars, call, analyzerVars, dataset, runs, batch_size,
                   max_games, df, batch_i, row, blunder_data, blunder_j,
                   blunder_id, nodes, uuid_calls, db, models, exc>>

\* Lines 132-139: the black player is connected; the loop over the dicts
\* starts.
ConnectBlackPlayer ==
    /\ ipc = "connect_black"
    /\ rels' = connect_player_to_game(nodes, rels, game.black_id, game.id, "black")
    /\ blunder_j' = 0
    /\ ipc' = "blunders"
    /\ UNCHANGED <<gameVars, call, analyzerVars, dataset, runs, batch_size,
                   max_games, df, batch_i, row, blunder_data, blunder_id,
                   nodes, uuid_calls, db, models, exc>>

\* Lines 140-141: the dict is no Blunder; the next one.
NotBlunder ==
    /\ ipc = "blunders"
    /\ blunder_j < Len(blunder_data)
    /\ ~is_blunder(blunder)
    /\ blunder_j' = blunder_j + 1
    /\ UNCHANGED <<gameVars, call, analyzerVars, dataset, runs, batch_size,
                   max_games, ipc, df, batch_i, row, blunder_data,
                   blunder_id, nodes, rels, uuid_calls, db, models, exc>>

\* Lines 141-158: the dict is a Blunder; an identifier is drawn and the
\* node created.
CreateBlunder ==
    /\ ipc = "blunders"
    /\ blunder_j < Len(blunder_data)
    /\ is_blunder(blunder)
    /\ uuid_calls' = uuid_calls + 1
    /\ blunder_id' = uuid4(uuid_calls)
    /\ nodes' = create_blunder(nodes, blunder_id', blunder, severity_of(blunder))
    /\ ipc' = "connect_blunder_to_game"
    /\ UNCHANGED <<gameVars, call, analyzerVars, dataset, runs, batch_size,
                   max_games, df, batch_i, row, blunder_data, blunder_j,
                   rels, db, models, exc>>

\* Lines 161-164.
ConnectBlunderToGame ==
    /\ ipc = "connect_blunder_to_game"
    /\ rels' = connect_blunder_to_game(nodes, rels, blunder_id, game.id)
    /\ ipc' = "connect_player_to_blunder"
    /\ UNCHANGED <<gameVars, call, analyzerVars, dataset, runs, batch_size,
                   max_games, df, batch_i, row, blunder_data, blunder_j,
                   blunder_id, nodes, uuid_calls, db, models, exc>>

\* Lines 167-172: the mover is connected; the next dict.
ConnectPlayerToBlunder ==
    /\ ipc = "connect_player_to_blunder"
    /\ rels' = connect_player_to_blunder(nodes, rels, player_id_of(blunder, game),
                                         blunder_id)
    /\ blunder_j' = blunder_j + 1
    /\ ipc' = "blunders"
    /\ UNCHANGED <<gameVars, call, analyzerVars, dataset, runs, batch_size,
                   max_games, df, batch_i, row, blunder_data, blunder_id,
                   nodes, uuid_calls, db, models, exc>>

\* Lines 174-181: the dicts are done; the next row of the batch.
GameDone ==
    /\ ipc = "blunders"
    /\ blunder_j >= Len(blunder_data)
    /\ row' = row + 1
    /\ ipc' = "game"
    /\ UNCHANGED <<gameVars, call, analyzerVars, dataset, runs, batch_size,
                   max_games, df, batch_i, blunder_data, blunder_j,
                   blunder_id, nodes, rels, uuid_calls, db, models, exc>>

\* Where the import is about to query the database.
AtQuery ==
    \/ ipc = "game" /\ row < Len(batch)
    \/ ipc \in {"create_game", "create_opening", "connect_game_to_opening",
                "create_white", "create_black", "connect_white",
                "connect_black", "connect_blunder_to_game",
                "connect_player_to_blunder"}
    \/ ipc = "blunders" /\ blunder_j < Len(blunder_data) /\ is_blunder(blunder)

\* The exception leaving the function without its finally clause.
QueryRaises_no_finally ==
    /\ AtQuery
    /\ exc' = "DbError"
    /\ ipc' = "raised"
    /\ UNCHANGED <<gameVars, call, analyzerVars, dataset, runs, batch_size,
                   max_games, df, batch_i, row, blunder_data, blunder_j,
                   blunder_id, nodes, rels, uuid_calls, db, models>>

\* db_manager.py lines 11-14: the query raises; the exception leaves the
\* try block.
QueryRaises ==
    /\ AtQuery
    /\ exc' = "DbError"
    /\ ipc' = "finally"
    /\ UNCHANGED <<gameVars, call, analyzerVars, dataset, runs, batch_size,
                   max_games, df, batch_i, row, blunder_data, blunder_j,
                   blunder_id, nodes, rels, uuid_calls, db, models>>

\* Lines 184-186: the finally clause, then the return or the exception.
Finally ==
    /\ ipc = "finally"
    /\ close_calls' = close_calls + 1
    /\ engine' = close(engine)
    /\ db' = "closed"
    /\ ipc' = IF exc = "none" THEN "returned" ELSE "raised"
    /\ UNCHANGED <<gameVars, call, popen_calls, history, dataset, runs, batch_size,
                   max_games, df, batch_i, row, blunder_data, blunder_j,
                   blunder_id, nodes, rels, uuid_calls, models, exc>>

\* Lines 182-218, the source answering as in StubReplies.
analyze_in_import ==
    \/ ProcessGame
    \/ \E info \in StubReplies :
          Evaluate(info) \/ EvaluateUnavailable(info) \/ EvaluateRaises(info)
    \/ Classify
    \/ AnalyzeReturn

\* Lines 30-186.
import_data_to_neo4j ==
    \/ Construct \/ ConstructRaises
    \/ LoadData \/ LoadRaises
    \/ BatchStart \/ BatchesDone
    \/ SkipGame \/ AnalyzeGame \/ BatchComplete
    \/ AnalysisFailed \/ AnalysisRaises \/ AnalysisReturned
    \/ CreateGame \/ CreateOpening \/ ConnectGameToOpening
    \/ CreateWhitePlayer \/ CreateBlackPlayer
    \/ ConnectWhitePlayer \/ ConnectBlackPlayer
    \/ NotBlunder \/ CreateBlunder
    \/ ConnectBlunderToGame \/ ConnectPlayerToBlunder
    \/ GameDone
    \/ QueryRaises
    \/ Finally

NextImport ==
    import_data_to_neo4j \/ convert_moves_to_positions \/ analyze_in_import

SpecImport == InitImport /\ [][NextImport]_vars

(***************************************************************************)
(* import_data_to_neo4j called again on the same dataset and database.     *)
(***************************************************************************)
\* Most calls of import_data_to_neo4j.
MaxRuns == 2

\* Since the n-th request to the engine, an analysis returned None or an
\* exception is being propagated.
FailedSince(n) ==
    \/ exc # "none"
    \/ \E p \in (n + 1)..Len(engine_log) : engine_log[p].reply.kind # "info"

\* The requests made to the engine before the current call.
RequestsBefore == IF runs = <<>> THEN 0 ELSE runs[Len(runs)].requests

\* The call has ended; what it left is noted and import_data_to_neo4j is
\* called again (lines 30-38): new locals, a new analyzer, the same
\* dataset and the database as it is.
Rerun ==
    /\ ipc \in {"returned", "raised"}
    /\ Len(runs) + 1 < MaxRuns
    /\ runs' = Append(runs, [result |-> ipc,
                             failed |-> FailedSince(RequestsBefore),
                             requests |-> Len(engine_log),
                             nodes |-> nodes,
                             rels |-> rels])
    /\ ipc' = "start"
    /\ exc' = "none"
    /\ df' = <<>>
    /\ batch_i' = 0
    /\ row' = 0
    /\ blunder_data' = <<>>
    /\ blunder_j' = 0
    /\ blunder_id' = ""
    /\ db' = "unset"
    /\ models' = "unset"
    /\ engine' = "unset"
    /\ popen_calls' = 0
    /\ close_calls' = 0
    /\ UNCHANGED <<gameVars, call, history, dataset, batch_size, max_games,
                   nodes, rels, uuid_calls>>

\* What the source answers when the import is called again: one score, no
\* evaluation, or an engine error.
ReimportReplies ==
    {r \in EngineReplies : r.kind = "info" => r.score = Cp(120)}

\* Lines 182-218, the source answering as in ReimportReplies.
analyze_in_reimport ==
    \/ ProcessGame
    \/ \E info \in ReimportReplies :
          Evaluate(info) \/ EvaluateUnavailable(info) \/ EvaluateRaises(info)
    \/ Classify
    \/ AnalyzeReturn

NextReimport ==
    \/ import_data_to_neo4j
    \/ convert_moves_to_positions
    \/ analyze_in_reimport
    \/ Rerun

SpecReimport == InitImport /\ [][NextReimport]_vars

(***************************************************************************)
(* Properties.                                                             *)
(***************************************************************************)
Failed(reply) == reply.kind \in {"None", "EngineError"}
IsFailure(o) == o.kind \in {"None", "raised"}

\* The evaluation is positive exactly when the score favours `color` and
\* negative exactly when it is against `color`.
FromPerspective(eval, relative, f, color) ==
    LET s == pov(relative, fen_turn(f), color)
    IN  /\ eval > 0 <=> Winning(s)
        /\ eval < 0 <=> Losing(s)

\* The number of leading moves of the list that can be applied in turn.
Applicable(moves) ==
    CHOOSE n \in 0..Len(moves) :
        /\ \A j \in 1..n : parse_san(SubSeq(moves, 1, j - 1), moves[j])
        /\ n = Len(moves) \/ ~parse_san(SubSeq(moves, 1, n), moves[n + 1])

\* C1: in every record returned, with scores reported relative to the side
\* to move of the evaluated position, the stored eval is from the mover's
\* perspective: positive means good for the player who made the move.
C1_EvalFromMoverPerspective ==
    outcome.kind = "list" =>
        \A j \in 1..Len(outcome.records) :
            FromPerspective(outcome.records[j].eval,
                            engine_log[j].reply.score,
                            outcome.records[j].fen,
                            outcome.records[j].player)

\* C2: for every ply >= 2 the previous and the current evaluation given to
\* classify_move are both from the perspective of the mover of that ply.
C2_ClassifierArgsFromMoverPerspective ==
    (pc = "classify" /\ i >= 1) =>
        LET mover == records[i + 1].player
        IN  /\ FromPerspective(previous_eval, engine_log[i].reply.score,
                               records[i].fen, mover)
            /\ FromPerspective(records[i + 1].eval, engine_log[i + 1].reply.score,
                               records[i + 1].fen, mover)

\* C3: the four mate-transition rules decide the label whatever the two
\* win probabilities are: into a mate for the mover Best, into a mate
\* against the mover Blunder, out of a mate for the mover Blunder, out of a
\* mate against the mover Best.
C3_MateTransitionRules ==
    (call.pc = "classify_move" /\ call.ret # "pending") =>
        /\ (~call.previous_is_mate /\ call.current_is_mate /\ call.current_eval > 0)
              => call.ret = "Best"
        /\ (~call.previous_is_mate /\ call.current_is_mate /\ call.current_eval < 0)
              => call.ret = "Blunder"
        /\ (call.previous_is_mate /\ ~call.current_is_mate /\ call.previous_eval > 0)
              => call.ret = "Blunder"
        /\ (call.previous_is_mate /\ ~call.current_is_mate /\ call.previous_eval < 0)
              => call.ret = "Best"

\* Previous +1.2 and no mate, current mate in 3 against the mover: Blunder.
C3_Witness ==
    /\ call.pc = "classify_move"
    /\ call.previous_eval = 1200 /\ ~call.previous_is_mate
    /\ call.current_eval = -13333 /\ call.current_is_mate
    /\ call.ret = "Blunder"

\* The table of section 4.4: the labels whose range holds the drop d.
TableLabels(d) ==
    {l \in {"Best", "Excellent", "Good", "Inaccuracy", "Mistake", "Blunder"} :
        \/ l = "Best" /\ d <= 0
        \/ l = "Excellent" /\ 0 < d /\ d <= 200000
        \/ l = "Good" /\ 200000 < d /\ d <= 500000
        \/ l = "Inaccuracy" /\ 500000 < d /\ d <= 1000000
        \/ l = "Mistake" /\ 1000000 < d /\ d <= 2000000
        \/ l = "Blunder" /\ d > 2000000}

\* C4: when no mate-transition rule applies, the label is the one label of
\* the table whose range holds delta = winProbability(previous) -
\* winProbability(current); a boundary value gets the lower severity.
C4_ThresholdTable ==
    /\ (call.pc = "chain" /\ call.ret # "pending") =>
          TableLabels(call.win_prob_change) = {call.ret}
    /\ (/\ call.pc = "classify_move"
        /\ call.ret # "pending"
        /\ call.current_is_mate = call.previous_is_mate) =>
          TableLabels(eval_to_win_probability(call.previous_eval)
                        - eval_to_win_probability(call.current_eval)) = {call.ret}

\* A drop of exactly 0.05 is Good.
C4_Witness ==
    /\ call.pc = "chain"
    /\ call.win_prob_change = 500000
    /\ call.ret = "Good"

\* C5: a forced-mate evaluation that the classifier turns into a win
\* probability gives exactly 1.0 when the mate favours the evaluated side
\* and exactly 0.0 when it is against it.
C5_MateProbabilitySaturates ==
    \A j \in 2..Len(records) :
        (/\ "move_class" \in DOMAIN records[j]
         /\ records[j].is_mate
         /\ records[j - 1].is_mate) =>
            /\ eval_to_win_probability(records[j].eval)
                  = IF records[j].eval > 0 THEN One ELSE 0
            /\ eval_to_win_probability(records[j - 1].eval)
                  = IF records[j - 1].eval > 0 THEN One ELSE 0

\* C6: a request that fails is the last request made, the analysis is over
\* and its caller got a failure, not a list of records.
C6_StopsAtFailedPly ==
    \A j \in 1..Len(engine_log) :
        Failed(engine_log[j].reply) =>
            /\ j = Len(engine_log)
            /\ pc = "done"
            /\ IsFailure(outcome)
            /\ "records" \notin DOMAIN outcome

\* The source failed at ply 2, after one record had been built.
C6_Witness ==
    /\ Len(engine_log) = 2
    /\ Failed(engine_log[2].reply)
    /\ "move_class" \in DOMAIN records[1]
    /\ pc = "done"
    /\ IsFailure(outcome)

\* C7: the failure given to the caller names the ply at which the
\* evaluation source failed.
C7_FailureNamesPly ==
    IsFailure(outcome) =>
        /\ "ply" \in DOMAIN outcome
        /\ outcome.ply = Len(engine_log)

\* C8: a list of n moves gives a failure or exactly n records.
C8_NoMissingPlies ==
    outcome.kind = "list" => Len(outcome.records) = Len(game_moves)

\* C9: the positions returned are the initial one and the one after each
\* of the leading applicable moves, in order; nothing after the first move
\* that cannot be applied is pushed on the board.
C9_PositionsUpToFirstBadMove ==
    convert_ret.kind = "list" =>
        LET n == Applicable(game_moves)
        IN  /\ Len(convert_ret.positions) = n + 1
            /\ \A j \in 0..n :
                  convert_ret.positions[j + 1] = fen(SubSeq(game_moves, 1, j))
            /\ board = SubSeq(game_moves, 1, n)

\* The second move is no move; the third, legal on the board as it stands,
\* is not applied.
C9_Witness ==
    /\ convert_ret.kind = "list"
    /\ Len(game_moves) = 3
    /\ Applicable(game_moves) = 1
    /\ parse_san(board, game_moves[3])
    /\ Len(convert_ret.positions) = 2

\* C10: when a move cannot be applied, the caller is given a MoveParseError
\* with the move's text and its index.
C10_ParseErrorSignalled ==
    (convert_ret.kind # "pending" /\ Applicable(game_moves) < Len(game_moves)) =>
        /\ convert_ret.kind = "MoveParseError"
        /\ convert_ret.move = game_moves[Applicable(game_moves) + 1]
        /\ convert_ret.index = Applicable(game_moves)

Labels == {"Best", "Excellent", "Good", "Inaccuracy", "Mistake", "Blunder"}

\* C11: in every list returned the first record is Opening with an
\* eval_change of zero, and every other record has one of the six labels
\* Best .. Blunder, never Opening.
C11_OpeningFirstOnly ==
    (outcome.kind = "list" /\ Len(outcome.records) >= 1) =>
        /\ outcome.records[1].move_class = "Opening"
        /\ outcome.records[1].eval_change = 0
        /\ \A j \in 2..Len(outcome.records) :
              outcome.records[j].move_class \in Labels

\* Three records: Opening, then two judged plies.
C11_Witness ==
    /\ outcome.kind = "list"
    /\ Len(outcome.records) = 3
    /\ outcome.records[1].move_class = "Opening"
    /\ outcome.records[2].move_class = "Best"
    /\ outcome.records[3].move_class = "Blunder"

\* C12: for every record after the first, eval_change is the eval stored
\* in the record before it minus its own eval (raw scores), and the label
\* is classify_move's on these two evals with the mate flags of these two
\* records.
C12_EvalChangeFromPrecedingRecord ==
    outcome.kind = "list" =>
        \A j \in 2..Len(outcome.records) :
            LET cur == outcome.records[j]
                prev == outcome.records[j - 1]
            IN  /\ cur.eval_change = prev.eval - cur.eval
                /\ cur.move_class =
                      classify_move(cur.eval, prev.eval, cur.is_mate, prev.is_mate)

\* A third ply that leaves the mate of the second: the flag of the record
\* just before it decides.
C12_Witness ==
    /\ outcome.kind = "list"
    /\ Len(outcome.records) = 3
    /\ ~outcome.records[1].is_mate
    /\ outcome.records[2].is_mate
    /\ ~outcome.records[3].is_mate
    /\ outcome.records[3].eval_change # 0

\* C13: the record of ply j has mover White for odd j and Black for even
\* j, move_number (j + 1) div 2 and the j-th move of the list as notation.
C13_MoverNumberNotation ==
    outcome.kind = "list" =>
        \A j \in 1..Len(outcome.records) :
            /\ outcome.records[j].player = IF j % 2 = 1 THEN "White" ELSE "Black"
            /\ outcome.records[j].move_number = (j + 1) \div 2
            /\ outcome.records[j].move_notation = game_moves[j]

\* The third ply is White's second move.
C13_Witness ==
    /\ outcome.kind = "list"
    /\ Len(outcome.records) = 3
    /\ outcome.records[2].player = "Black"
    /\ outcome.records[2].move_number = 1
    /\ outcome.records[3].player = "White"
    /\ outcome.records[3].move_number = 2
    /\ outcome.records[3].move_notation = "Qh5"

\* C14: the j-th request of a call is for the position after the j-th move
\* (ply order, each ply once, never the initial position), a request is
\* made only when every earlier ply has been classified, and the records
\* returned are in the same order, one per request.
C14_RequestsInPlyOrder ==
    /\ \A j \in 1..Len(engine_log) :
          engine_log[j].fen = fen(SubSeq(game_moves, 1, j))
    /\ pc = "analyze" => Len(engine_log) = i
    /\ pc = "classify" => Len(engine_log) = i + 1
    /\ outcome.kind = "list" =>
          /\ Len(engine_log) = Len(outcome.records)
          /\ \A j \in 1..Len(outcome.records) :
                /\ outcome.records[j].fen = engine_log[j].fen
                /\ outcome.records[j].move_notation = game_moves[j]

\* Three plies requested and returned.
C14_Witness ==
    /\ outcome.kind = "list"
    /\ Len(outcome.records) = 3
    /\ Len(engine_log) = 3
    /\ engine_log[3].fen.placement = game_moves

\* The game "e4 e5 Qh5" with evaluations 0.3, 0.3, -2.5.
Scenario20 ==
    /\ game_moves = <<"e4", "e5", "Qh5">>
    /\ outcome # Pending
    /\ Len(engine_log) = 3
    /\ engine_log[1].reply = [kind |-> "info", score |-> Cp(30), pv |-> <<"pv0">>]
    /\ engine_log[2].reply = [kind |-> "info", score |-> Cp(30), pv |-> <<"pv0">>]
    /\ engine_log[3].reply = [kind |-> "info", score |-> Cp(-250), pv |-> <<"pv0">>]

\* C20: "e4 e5 Qh5" with evaluations 0.3, 0.3, -2.5 gives exactly three
\* records in the order e4, e5, Qh5, the first Opening and the Qh5 record
\* Mistake or Blunder.
C20_QueenSortieScenario ==
    Scenario20 =>
        /\ outcome.kind = "list"
        /\ Len(outcome.records) = 3
        /\ [j \in 1..3 |-> outcome.records[j].move_notation] = <<"e4", "e5", "Qh5">>
        /\ outcome.records[1].move_class = "Opening"
        /\ outcome.records[3].move_class \in {"Mistake", "Blunder"}

\* The scenario has run: the Qh5 record is a Mistake.
C20_Witness ==
    /\ Scenario20
    /\ outcome.kind = "list"
    /\ outcome.records[3].move_class = "Mistake"

\* The properties of the logistic on the frame's result, strict inside
\* (0, 1) for the scores in `strict`.
WinProbShape(strict) ==
    (/\ call.pc = "eval_to_win_probability"
     /\ call.returned
     /\ call.eval_score # None) =>
        /\ call.eval_score = 0 => call.ret = One \div 2
        /\ \A e \in WinProbInputs :
              e <= call.eval_score => eval_to_win_probability(e) <= call.ret
        /\ 0 <= call.ret /\ call.ret <= One
        /\ call.eval_score \in strict => (0 < call.ret /\ call.ret < One)

C17_NoneIsNotNeutral ==
    /\ (/\ call.pc = "eval_to_win_probability"
        /\ call.returned
        /\ call.eval_score = None) => call.raised
    /\ (/\ call.pc = "classify_move"
        /\ call.ret # "pending"
        /\ (call.current_eval = None \/ call.previous_eval = None)) =>
            call.ret \notin Labels \cup {"Opening"}

\* C15: with a deterministic evaluation source, a call of
\* analyze_game_for_blunders that has ended gave its caller what every
\* earlier call on the same analyzer with the same move list gave, whatever
\* calls were made in between.
C15_SameMovesSameRecords ==
    pc = "done" =>
        \A h \in 1..Len(history) :
            history[h].moves = game_moves => history[h].outcome = outcome

\* The third call repeats the first, with a call for another game in
\* between, and returns three classified records, the last a Blunder.
C15_Witness ==
    /\ pc = "done"
    /\ Len(history) = 2
    /\ history[1].moves = game_moves
    /\ history[2].moves # game_moves
    /\ history[2].outcome.kind = "list"
    /\ outcome.kind = "list"
    /\ Len(outcome.records) = 3
    /\ outcome.records[3].move_class = "Blunder"

\* C18: the engine is started at most once, and once per constructed
\* analyzer; when import_data_to_neo4j has returned or is propagating an
\* exception and the analyzer was constructed, close was called and the
\* engine is released.
C18_EngineReleasedOnEveryExit ==
    /\ popen_calls <= 1
    /\ engine # "unset" => popen_calls = 1
    /\ ipc \in {"returned", "raised"} /\ popen_calls = 1 =>
          engine = "closed" /\ close_calls >= 1

\* A database write raised after a Blunder node of the game was created;
\* the exception is propagated and the engine is released.
C18_Witness ==
    /\ ipc = "raised"
    /\ exc = "DbError"
    /\ engine = "closed"
    /\ \E n \in nodes : n.label = "Blunder"

\* The Blunder nodes linked to the game being imported that hold the
\* position of its j-th dict.
BlunderNodesOf(j) ==
    {n \in nodes :
        /\ n.label = "Blunder"
        /\ n.position_fen = blunder_data[j].fen
        /\ [type |-> "IN", blunder |-> n.id, game |-> game.id] \in rels}

\* Who the MADE_BLUNDER relationships of the node start from.
MadeBy(n) == {r.player : r \in {q \in rels : q.type = "MADE_BLUNDER" /\ q.blunder = n.id}}

\* C19: between two dicts of the loop of lines 140-172, every dict already
\* visited that is a Blunder has exactly one node, holding its move, linked
\* to the game and to the white player if the mover is White, the black
\* player otherwise; no other dict has a node; every identifier drawn made
\* a new node, and every Blunder node is in exactly one game.
C19_BlunderNodeIffBlunder ==
    ipc = "blunders" =>
        /\ \A j \in 1..Len(blunder_data) :
              IF j <= blunder_j /\ blunder_data[j].move_class = "Blunder"
              THEN /\ Cardinality(BlunderNodesOf(j)) = 1
                   /\ \A n \in BlunderNodesOf(j) :
                         /\ n.move_number = blunder_data[j].move_number
                         /\ n.move_notation = blunder_data[j].move_notation
                         /\ MadeBy(n) =
                               {IF blunder_data[j].player = "White"
                                THEN game.white_id ELSE game.black_id}
              ELSE BlunderNodesOf(j) = {}
        /\ Cardinality({n \in nodes : n.label = "Blunder"}) = uuid_calls
        /\ \A n \in {o \in nodes : o.label = "Blunder"} :
              Cardinality({r \in rels : r.type = "IN" /\ r.blunder = n.id}) = 1

\* The loop over a game's dicts is over: White's third move and Black's
\* second are Blunders with a node each; the first move is an Opening.
C19_Witness ==
    /\ ipc = "blunders"
    /\ blunder_j = 3
    /\ Len(blunder_data) = 3
    /\ blunder_data[1].move_class = "Opening"
    /\ blunder_data[2].move_class = "Blunder"
    /\ blunder_data[3].move_class = "Blunder"
    /\ blunder_data[3].player = "White"
    /\ BlunderNodesOf(2) # {}
    /\ BlunderNodesOf(3) # {}

\* C21: for every mate count m the engine reports as the relative score,
\* m = 0 included, get_stockfish_evaluation_local returns is_mate = TRUE,
\* a score that is positive exactly when the side to move delivers the
\* mate, and a magnitude strictly larger than that of every larger
\* distance |m|.
C21_MateEncoding ==
    (/\ call.pc = "get_stockfish_evaluation_local"
     /\ call.returned
     /\ is_mate(call.info.score)) =>
        /\ call.ret.is_mate
        /\ call.ret.eval > 0 <=> mate(call.info.score) > 0
        /\ \A o \in EngineInfos :
              is_mate(o.score) /\ Abs(mate(o.score)) > Abs(mate(call.info.score))
                  => Abs(get_stockfish_evaluation_local(o).eval) < Abs(call.ret.eval)

\* The cases of C22: the request failed, the status is not 200, the
\* payload is not the expected JSON object, its success flag is false or
\* missing, or its bestmove is no string of at least two words.
RemoteUnavailable(r) ==
    \/ r.kind = "RequestException"
    \/ r.status_code # 200
    \/ r.payload.json # "object"
    \/ r.payload.success # "true"
    \/ r.payload.bestmove.kind # "str"
    \/ Len(r.payload.bestmove.tokens) < 2

\* C22: in each of these cases get_stockfish_evaluation returns None, and
\* every request was made with a finite timeout.
C22_RemoteUnavailableIsNone ==
    (call.pc = "get_stockfish_evaluation" /\ call.returned) =>
        /\ call.timeout > 0
        /\ RemoteUnavailable(call.response) => call.ret.kind = "None"

\* C23: a step of the import that changes the nodes or the relationships
\* is taken only after the analysis of the row being imported has ended
\* and returned its list; while a game is analysed, and when its analysis
\* returned None or raised, nothing is written.
C23_WritesOnlyAfterAnalysis ==
    [][(nodes' # nodes \/ rels' # rels) =>
          /\ pc = "done"
          /\ outcome.kind = "list"
          /\ game_moves = game.moves
          /\ blunder_data = outcome.records]_vars

\* The analysis of g2 returned None after g1 was imported: the database
\* holds g1 and nothing of g2.
C23_Witness ==
    /\ ipc = "batch"
    /\ outcome.kind = "None"
    /\ game_moves = <<"e4", "Zz9">>
    /\ has_node(nodes, "Game", "g1")
    /\ ~has_node(nodes, "Game", "g2")
    /\ \A r \in rels : r.type \in {"IN", "PLAYED_IN", "USES"} => r.game = "g1"

\* C24: once an analysis returned None, the import makes no further
\* request to the engine and enters no further analysis.
C24_ImportStopsAtFailure ==
    \A p \in 1..Len(engine_log) :
        engine_log[p].reply.kind = "None" =>
            p = Len(engine_log) /\ pc = "done"

\* How many rows C25 has the import visit: min(max_games, N), N for None.
Limit == IF max_games = None THEN Len(dataset) ELSE Min(max_games, Len(dataset))

\* No analysis returned None and no exception is propagated.
NoFailure ==
    /\ exc = "none"
    /\ \A p \in 1..Len(engine_log) : engine_log[p].reply.kind = "info"

GameIds == {n.id : n \in {o \in nodes : o.label = "Game"}}

\* C25: the loop runs over the first min(max_games, N) rows of the dataset
\* (all N for None) in batches that start at multiples of batch_size and
\* hold at most batch_size rows; only these rows are written, and an import
\* that returns without a failure has written every one of them.
C25_VisitsFirstGames ==
    /\ ipc \in {"batch", "game"} =>
          /\ df = SubSeq(dataset, 1, Limit)
          /\ batch_i % batch_size = 0
          /\ Len(batch) <= batch_size
          /\ ipc = "game" => row <= Len(batch)
    /\ GameIds \subseteq {dataset[p].id : p \in 1..Limit}
    /\ ipc = "returned" /\ NoFailure => GameIds = {dataset[p].id : p \in 1..Limit}

\* C25 for the limits other than 0.
C25_ExceptZero == max_games # 0 => C25_VisitsFirstGames

BlunderNodes(ns) == {n \in ns : n.label = "Blunder"}
GameNodes(ns) == {n \in ns : n.label = "Game"}

\* C26: the step taken at a row whose game is in the database requests no
\* evaluation, enters no analysis and writes nothing; and a call that
\* returns without a failure, made after a call that returned without a
\* failure on the same dataset, has made no request and leaves the Game
\* nodes and the number of Blunder nodes the earlier call left.
C26_PresentGameSkipped ==
    /\ [][(/\ ipc = "game"
           /\ row < Len(batch)
           /\ find_game_by_id(nodes, game.id) # {})
          => /\ UNCHANGED <<nodes, rels, gameVars>>
             /\ ipc' \in {"game", "finally"}]_vars
    /\ [](\A p \in 1..Len(runs) :
            (/\ p = Len(runs)
             /\ ipc = "returned"
             /\ runs[p].result = "returned"
             /\ ~runs[p].failed
             /\ ~FailedSince(runs[p].requests))
            => /\ Len(engine_log) = runs[p].requests
               /\ GameNodes(nodes) = GameNodes(runs[p].nodes)
               /\ Cardinality(BlunderNodes(nodes))
                     = Cardinality(BlunderNodes(runs[p].nodes)))

\* The second call over two games has returned, as the first did, without
\* a failure; the database holds both games and a Blunder.
C26_Witness ==
    /\ ipc = "returned"
    /\ Len(runs) = 1
    /\ runs[1].result = "returned"
    /\ ~runs[1].failed
    /\ ~FailedSince(runs[1].requests)
    /\ Cardinality(GameNodes(nodes)) = 2
    /\ BlunderNodes(nodes) # {}

\* The record r of game g has its Blunder node, linked to the game and to
\* the player who made the move.
Stored(r, g) ==
    \E n \in BlunderNodes(nodes) :
        /\ n.position_fen = r.fen
        /\ [type |-> "IN", blunder |-> n.id, game |-> g.id] \in rels
        /\ [type |-> "MADE_BLUNDER",
            player |-> IF r.player = "White" THEN g.white_id ELSE g.black_id,
            blunder |-> n.id] \in rels

\* C27: when a call of import_data_to_neo4j has ended, returned or aborted,
\* the game analysed last, if its Game node is in the database, has each of
\* its Blunder-labelled moves stored.
C27_StoredGamesAreComplete ==
    (ipc \in {"returned", "raised"} /\ outcome.kind = "list") =>
        \A g \in Rows :
            (g.moves = game_moves /\ has_node(nodes, "Game", g.id)) =>
                \A p \in 1..Len(outcome.records) :
                    outcome.records[p].move_class = "Blunder"
                        => Stored(outcome.records[p], g)

\* The second call has returned without a failure and has analysed
\* nothing, yet the game the first call was aborted in lacks a Blunder.
C27_SkippedIncomplete ==
    ~(/\ ipc = "returned"
      /\ Len(runs) = 1
      /\ runs[1].result = "raised"
      /\ Len(engine_log) = runs[1].requests
      /\ ~C27_StoredGamesAreComplete)

\* C28: when import_data_to_neo4j has returned or is propagating an
\* exception, neither its own Neo4jConnection nor the one of its
\* GraphModels is open.
C28_ConnectionsClosed ==
    ipc \in {"returned", "raised"} => db # "open" /\ models # "open"

\* C28 for the function's own connection, on the exits that pass the
\* finally clause.
C28_OwnConnectionClosedAfterTry ==
    (ipc \in {"returned", "raised"} /\ engine # "unset") => db = "closed"

\* C29: classify_move called with two mate evaluations of the same sign,
\* both favouring the mover or both against the mover, returns Best
\* whatever the two mate distances.
C29_SameDirectionMatesAreBest ==
    (/\ call.pc = "classify_move"
     /\ call.ret # "pending"
     /\ call.current_is_mate
     /\ call.previous_is_mate
     /\ \/ call.current_eval > 0 /\ call.previous_eval > 0
        \/ call.current_eval < 0 /\ call.previous_eval < 0)
        => call.ret = "Best"

\* C30: a classified ply after which the engine reported Mate(0), the side
\* to move being checkmated by the move, is not labelled Blunder, for
\* White's moves and for Black's.
C30_CheckmateIsNoBlunder ==
    \A j \in 1..Len(records) :
        (/\ "move_class" \in DOMAIN records[j]
         /\ engine_log[j].reply.kind = "info"
         /\ engine_log[j].reply.score = Mate(0))
            => records[j].move_class # "Blunder"

\* C30 for White's moves only.
C30_WhiteCheckmateIsNoBlunder ==
    \A j \in 1..Len(records) :
        (/\ "move_class" \in DOMAIN records[j]
         /\ records[j].player = "White"
         /\ engine_log[j].reply.kind = "info"
         /\ engine_log[j].reply.score = Mate(0))
            => records[j].move_class # "Blunder"

====
